---- MODULE Spec2Model ----
\* Region containers of openMVG/features/regions.hpp: parallel arrays of
\* features (_vec_feats) and descriptors (_vec_descs) per container instance,
\* and the operations that read and mutate them.
EXTENDS Integers, Sequences, FiniteSets, TLC

\* ---------------------------------------------------------------- bounds
NumObjs == 2      \* container instances that can be alive at once
MaxLen == 2       \* longest feature / descriptor array and association list
NumVals == 2      \* distinct regions an extraction produced

Objs == 1..NumObjs
\* a region is named by a number: feature r and descriptor r are the feature
\* and the descriptor the extraction computed for region r
Vals == 1..NumVals
Indices == 0..MaxLen          \* std::size_t arguments; MaxLen is always out of range
Point3dIds == {100, 101}

\* last describes the latest call: its arguments, what it returned or wrote to
\* the caller's outputs, and whether its assertions and its reads were in range
VARIABLES alloc, _vec_feats, _vec_descs, last, running

vars == <<alloc, _vec_feats, _vec_descs, last, running>>

\* ---------------------------------------------------------------- helpers
\* v[i] of a std::vector, i counted from 0
At(v, i) == v[i + 1]

InRange(v, i) == i < Len(v)

\* a read of v[i]: the element when i is in range, otherwise whatever the
\* memory past the array holds (g)
Read(v, i, g) == IF InRange(v, i) THEN At(v, i) ELSE g

\* the first n records of s, or all of s when it holds fewer
Prefix(s, n) == SubSeq(s, 1, IF n < Len(s) THEN n ELSE Len(s))

SeqsUpTo(S, n) == UNION {[1..k -> S] : k \in 0..n}

EmptyMap == [k \in {} |-> 0]

MapPut_FirstWins(m, k, v) ==
    [x \in (DOMAIN m) \cup {k} |-> IF x \in DOMAIN m THEN m[x] ELSE v]

\* out_mapFullToLocal[feat._featureIndex] = i
MapPut(m, k, v) == [x \in (DOMAIN m) \cup {k} |-> IF x = k THEN v ELSE m[x]]

FeatureInImage(featureIndex, point3dId) ==
    [_featureIndex |-> featureIndex, _point3dId |-> point3dId]

\* association lists of every order, with repeated and out-of-range indices
AssocLists ==
    SeqsUpTo({FeatureInImage(f, p) : f \in Indices, p \in Point3dIds}, MaxLen)

\* what the caller's two outputs may hold before a call: nothing, or the
\* results of an earlier call
OldOutputs == {<<<<>>, EmptyMap>>, <<<<101>>, [k \in {MaxLen} |-> 0]>>}

\* a feature file and a descriptor file of the same image, each read up to
\* some record: record k of either file belongs to the same region
FilePairs ==
    {<<Prefix(s, nf), Prefix(s, nd)>> :
        s \in SeqsUpTo(Vals, MaxLen), nf \in 0..MaxLen, nd \in 0..MaxLen}

MatchedFilePairs == {p \in FilePairs : Len(p[1]) = Len(p[2])}

NoOp == [op |-> "none", self |-> 0, other |-> 0, i |-> 0, A |-> <<>>,
         ret |-> <<>>, asserts |-> TRUE, inBounds |-> TRUE]

\* ---------------------------------------------------------------- accessors
RegionCount(o) == Len(_vec_feats[o])

\* position of a feature: a pair of coordinates
coords(f) == <<f, f>>

\* the position GetRegionPosition(i) returns for an index in range
RegionPosition(o, i) == coords(At(_vec_feats[o], i))

GetRegionsPositions(o) == [k \in 1..Len(_vec_feats[o]) |-> coords(_vec_feats[o][k])]

\* ---------------------------------------------------------------- file readers
\* the records read replace the array; the flag is the reader's return value
loadFeatsFromFile(recs, ok) == [vec |-> recs, ret |-> ok]

loadDescsFromBinFile(recs, ok) == [vec |-> recs, ret |-> ok]

\* ---------------------------------------------------------------- state
Init ==
    /\ alloc = {1}
    /\ _vec_feats = [o \in Objs |-> <<>>]
    /\ _vec_descs = [o \in Objs |-> <<>>]
    /\ last = NoOp
    /\ running = TRUE

\* the process ends on a failed assert (a build with assertions) or on an
\* invalid read that faults: its containers are gone with it
Stop(op, asserts, inBounds) ==
    /\ running' = FALSE
    /\ alloc' = {}
    /\ _vec_feats' = [o \in Objs |-> <<>>]
    /\ _vec_descs' = [o \in Objs |-> <<>>]
    /\ last' = [NoOp EXCEPT !.op = op, !.asserts = asserts,
                            !.inBounds = inBounds, !.ret = <<"stopped">>]

\* the values past the end of an array, chosen only when a read goes there
Garbage(inb) == IF inb THEN {1} ELSE Vals

LoadFeatures(self, recs, ok) ==
    /\ running /\ self \in alloc
    /\ LET r == loadFeatsFromFile(recs, ok) IN
         /\ _vec_feats' = [_vec_feats EXCEPT ![self] = r.vec]
         /\ last' = [NoOp EXCEPT !.op = "LoadFeatures", !.self = self,
                                 !.ret = <<r.ret>>]
    /\ UNCHANGED <<alloc, _vec_descs, running>>

Load(self, frecs, fok, drecs, dok) ==
    /\ running /\ self \in alloc
    /\ LET rf == loadFeatsFromFile(frecs, fok)
           rd == loadDescsFromBinFile(drecs, dok) IN
         /\ _vec_feats' = [_vec_feats EXCEPT ![self] = rf.vec]
         /\ _vec_descs' = [_vec_descs EXCEPT ![self] = rd.vec]
         /\ last' = [NoOp EXCEPT !.op = "Load", !.self = self,
                                 !.ret = <<rf.ret /\ rd.ret, Len(frecs), Len(drecs)>>]
    /\ UNCHANGED <<alloc, running>>

clearDescriptors_KeepsFirst(self) ==
    /\ running /\ self \in alloc
    /\ _vec_descs' = [_vec_descs EXCEPT ![self] = Prefix(@, 1)]
    /\ last' = [NoOp EXCEPT !.op = "clearDescriptors", !.self = self]
    /\ UNCHANGED <<alloc, _vec_feats, running>>

clearDescriptors_Both(self) ==
    /\ running /\ self \in alloc
    /\ _vec_descs' = [_vec_descs EXCEPT ![self] = <<>>]
    /\ _vec_feats' = [_vec_feats EXCEPT ![self] = <<>>]
    /\ last' = [NoOp EXCEPT !.op = "clearDescriptors", !.self = self]
    /\ UNCHANGED <<alloc, running>>

clearDescriptors(self) ==
    /\ running /\ self \in alloc
    /\ _vec_descs' = [_vec_descs EXCEPT ![self] = <<>>]
    /\ last' = [NoOp EXCEPT !.op = "clearDescriptors", !.self = self]
    /\ UNCHANGED <<alloc, _vec_feats, running>>

swap(self, other) ==
    /\ running /\ self \in alloc /\ other \in alloc
    /\ _vec_feats' = [_vec_feats EXCEPT ![self] = _vec_feats[other],
                                        ![other] = _vec_feats[self]]
    /\ _vec_descs' = [_vec_descs EXCEPT ![self] = _vec_descs[other],
                                        ![other] = _vec_descs[self]]
    /\ last' = [NoOp EXCEPT !.op = "swap", !.self = self, !.other = other]
    /\ UNCHANGED <<alloc, running>>

\* assert(i < this->_vec_descs.size()); assert(j < genericRegions->RegionCount())
SquaredDescriptorDistanceAsserts(self, i, other, j) ==
    /\ i < Len(_vec_descs[self])
    /\ j < RegionCount(other)

\* this->_vec_descs[i] and regionsT->_vec_descs[j]
SquaredDescriptorDistanceReads(self, i, other, j) ==
    /\ InRange(_vec_descs[self], i)
    /\ InRange(_vec_descs[other], j)

SquaredDescriptorDistance(self, i, other, j) ==
    /\ running /\ self \in alloc /\ other \in alloc
    /\ LET asserts == SquaredDescriptorDistanceAsserts(self, i, other, j)
           inb == SquaredDescriptorDistanceReads(self, i, other, j) IN
         \/ /\ ~asserts \/ ~inb
            /\ Stop("SquaredDescriptorDistance", asserts, inb)
         \/ UNCHANGED vars

\* no assertion guards _vec_feats[i]
GetRegionPositionAsserts(self, i) == TRUE

GetRegionPositionReads(self, i) == InRange(_vec_feats[self], i)

GetRegionPosition(self, i) ==
    /\ running /\ self \in alloc
    /\ LET asserts == GetRegionPositionAsserts(self, i)
           inb == GetRegionPositionReads(self, i) IN
         \/ /\ ~asserts \/ ~inb
            /\ Stop("GetRegionPosition", asserts, inb)
         \/ UNCHANGED vars

\* assert(i < this->_vec_feats.size() && i < this->_vec_descs.size())
CopyRegionAsserts(self, i) ==
    i < Len(_vec_feats[self]) /\ i < Len(_vec_descs[self])

\* this->_vec_feats[i] and this->_vec_descs[i]
CopyRegionReads(self, i) ==
    InRange(_vec_feats[self], i) /\ InRange(_vec_descs[self], i)

CopyRegionFeats_Front(self, i, out, gf) ==
    <<Read(_vec_feats[self], i, gf)>> \o _vec_feats[out]

\* outRegionContainer->_vec_feats.push_back(this->_vec_feats[i])
CopyRegionFeats(self, i, out, gf) ==
    Append(_vec_feats[out], Read(_vec_feats[self], i, gf))

CopyRegionDescs_Skip(self, i, out, gd) == _vec_descs[out]

\* outRegionContainer->_vec_descs.push_back(this->_vec_descs[i])
CopyRegionDescs(self, i, out, gd) ==
    Append(_vec_descs[out], Read(_vec_descs[self], i, gd))

CopyRegion(self, i, out, gf, gd) ==
    /\ running /\ self \in alloc /\ out \in alloc
    /\ Len(_vec_feats[out]) < MaxLen /\ Len(_vec_descs[out]) < MaxLen
    /\ LET asserts == CopyRegionAsserts(self, i)
           inb == CopyRegionReads(self, i) IN
         \/ /\ ~asserts \/ ~inb
            /\ Stop("CopyRegion", asserts, inb)
         \/ /\ _vec_feats' = [_vec_feats EXCEPT ![out] = CopyRegionFeats(self, i, out, gf)]
            /\ _vec_descs' = [_vec_descs EXCEPT ![out] = CopyRegionDescs(self, i, out, gd)]
            /\ last' = [NoOp EXCEPT !.op = "CopyRegion", !.self = self,
                          !.other = out, !.i = i, !.asserts = asserts,
                          !.inBounds = inb]
            /\ UNCHANGED <<alloc, running>>

NewThis_Aliased(res) == TRUE

\* new This: an instance that is not any live instance
NewThis(res) == res \notin alloc

EmptyClone(self, res) ==
    /\ running /\ self \in alloc /\ NewThis(res)
    /\ alloc' = alloc \cup {res}
    /\ _vec_feats' = [_vec_feats EXCEPT ![res] = <<>>]
    /\ _vec_descs' = [_vec_descs EXCEPT ![res] = <<>>]
    /\ last' = [NoOp EXCEPT !.op = "EmptyClone", !.self = self, !.other = res]
    /\ UNCHANGED running

\* no assertion guards the reads at feat._featureIndex
createFilteredRegionsAsserts(self, A) == TRUE

createFilteredRegionsReads(self, A) ==
    \A k \in 1..Len(A) :
        /\ InRange(_vec_feats[self], A[k]._featureIndex)
        /\ InRange(_vec_descs[self], A[k]._featureIndex)

SourceIndex_Position(feat, i) == i

\* the index the loop reads the source's two arrays at
SourceIndex(feat, i) == feat._featureIndex

\* the for loop of createFilteredRegions, from iteration i on; st holds the
\* new container's two arrays and the two outputs
RECURSIVE FilterLoop(_, _, _, _, _, _)
FilterLoop(self, A, i, st, gF, gD) ==
    IF ~(i < Len(A)) THEN st
    ELSE LET feat == At(A, i) IN
         FilterLoop(self, A, i + 1,
            [Features |-> Append(st.Features,
                           Read(_vec_feats[self], SourceIndex(feat, i), At(gF, i))),
             Descriptors |-> Append(st.Descriptors,
                           Read(_vec_descs[self], SourceIndex(feat, i), At(gD, i))),
             mapFullToLocal |-> MapPut(st.mapFullToLocal, feat._featureIndex, i),
             associated3dPoint |-> Append(st.associated3dPoint, feat._point3dId)],
            gF, gD)

\* out_mapFullToLocal.clear()
ClearMap(m) == EmptyMap

\* out_associated3dPoint.clear()
ClearVec(v) == <<>>

\* out3d and outMap are what the caller's two outputs hold when it calls
createFilteredRegions(self, A, res, out3d, outMap, gF, gD) ==
    /\ running /\ self \in alloc /\ NewThis(res)
    /\ LET asserts == createFilteredRegionsAsserts(self, A)
           inb == createFilteredRegionsReads(self, A)
           st == FilterLoop(self, A, 0,
                    [Features |-> <<>>, Descriptors |-> <<>>,
                     mapFullToLocal |-> ClearMap(outMap),
                     associated3dPoint |-> ClearVec(out3d)],
                    gF, gD) IN
         \/ /\ ~asserts \/ ~inb
            /\ Stop("createFilteredRegions", asserts, inb)
         \/ /\ alloc' = alloc \cup {res}
            /\ _vec_feats' = [_vec_feats EXCEPT ![res] = st.Features]
            /\ _vec_descs' = [_vec_descs EXCEPT ![res] = st.Descriptors]
            /\ last' = [NoOp EXCEPT !.op = "createFilteredRegions", !.self = self,
                          !.other = res, !.A = A, !.asserts = asserts,
                          !.inBounds = inb,
                          !.ret = <<st.associated3dPoint, st.mapFullToLocal>>]
            /\ UNCHANGED running

\* the owner of a container releases it
Destroy(self) ==
    /\ running /\ self \in alloc /\ Cardinality(alloc) > 1
    /\ alloc' = alloc \ {self}
    /\ _vec_feats' = [_vec_feats EXCEPT ![self] = <<>>]
    /\ _vec_descs' = [_vec_descs EXCEPT ![self] = <<>>]
    /\ last' = [NoOp EXCEPT !.op = "Destroy", !.self = self]
    /\ UNCHANGED running

\* ---------------------------------------------------------------- steps
DoLoadFeatures ==
    \E self \in Objs, recs \in SeqsUpTo(Vals, MaxLen), ok \in BOOLEAN :
        LoadFeatures(self, recs, ok)

DoLoadFeaturesOk ==
    \E self \in Objs, recs \in SeqsUpTo(Vals, MaxLen) : LoadFeatures(self, recs, TRUE)

DoLoad ==
    \E self \in Objs, p \in FilePairs, fok \in BOOLEAN, dok \in BOOLEAN :
        Load(self, p[1], fok, p[2], dok)

DoLoadMatched ==
    \E self \in Objs, p \in MatchedFilePairs : Load(self, p[1], TRUE, p[2], TRUE)

DoClearDescriptors == \E self \in Objs : clearDescriptors(self)

DoSwap == \E self \in Objs, other \in Objs : swap(self, other)

DoSquaredDescriptorDistance ==
    \E self \in alloc, other \in alloc, i \in Indices, j \in Indices :
        SquaredDescriptorDistance(self, i, other, j)

DoGetRegionPosition == \E self \in Objs, i \in Indices : GetRegionPosition(self, i)

DoCopyRegion ==
    \E self \in alloc, out \in alloc, i \in Indices :
        \E gf \in Garbage(InRange(_vec_feats[self], i)),
           gd \in Garbage(InRange(_vec_descs[self], i)) :
            CopyRegion(self, i, out, gf, gd)

\* a caller that keeps CopyRegion's contract: i in range of both arrays
DoCopyRegionInRange ==
    \E self \in alloc, out \in alloc, i \in Indices :
        CopyRegionAsserts(self, i) /\ CopyRegion(self, i, out, 1, 1)

DoEmptyClone == \E self \in alloc, res \in Objs : EmptyClone(self, res)

DoCreateFilteredRegions ==
    \E self \in alloc, res \in Objs :
      NewThis(res) /\ \E A \in AssocLists, old \in OldOutputs :
        \E gF \in [1..Len(A) -> Garbage(\A k \in 1..Len(A) :
                                   InRange(_vec_feats[self], A[k]._featureIndex))],
           gD \in [1..Len(A) -> Garbage(\A k \in 1..Len(A) :
                                   InRange(_vec_descs[self], A[k]._featureIndex))] :
            createFilteredRegions(self, A, res, old[1], old[2], gF, gD)

DoDestroy == \E self \in Objs : Destroy(self)

\* the whole lifecycle, with files of any record counts
Next ==
    \/ DoLoadFeatures
    \/ DoLoad
    \/ DoClearDescriptors
    \/ DoSwap
    \/ DoSquaredDescriptorDistance
    \/ DoGetRegionPosition
    \/ DoCopyRegion
    \/ DoEmptyClone
    \/ DoCreateFilteredRegions
    \/ DoDestroy

Spec == Init /\ [][Next]_vars

\* callers that keep every contract: containers filled only by successful
\* loads of matching files, then copied from at indices in range, swapped
\* and stripped of their descriptors
NextMatched ==
    \/ DoLoadMatched
    \/ DoClearDescriptors
    \/ DoSwap
    \/ DoCopyRegionInRange
    \/ DoEmptyClone
    \/ DoDestroy

SpecMatched == Init /\ [][NextMatched]_vars


\* every load succeeds and feature and descriptor files match; containers are
\* loaded, copied (at any index), swapped, stripped of their descriptors and
\* filtered (with any association list)
NextFilter ==
    \/ DoLoadFeaturesOk
    \/ DoLoadMatched
    \/ DoClearDescriptors
    \/ DoSwap
    \/ DoCopyRegion
    \/ DoEmptyClone
    \/ DoCreateFilteredRegions
    \/ DoDestroy

SpecFilter == Init /\ [][NextFilter]_vars

\* ---------------------------------------------------------------- properties
Balanced(o) == Len(_vec_feats[o]) = Len(_vec_descs[o])

AllBalanced == \A o \in alloc : Balanced(o)

\* the containers a call may write to
Targets(l) ==
    CASE l.op \in {"Load", "LoadFeatures", "clearDescriptors"} -> {l.self}
      [] l.op = "CopyRegion" -> {l.other}
      [] l.op = "swap" -> {l.self, l.other}
      [] OTHER -> {}

Max(S) == CHOOSE x \in S : \A y \in S : y <= x

\* a load that reported failure: its container is not to be used
FailedLoad(l) == l.op \in {"Load", "LoadFeatures"} /\ ~l.ret[1]

\* C1 as stated: every container holds as many features as descriptors in
\* every reachable state, except the container clearDescriptors was just
\* called on (the state a failed load leaves is not counted).
C1_Original ==
    ~FailedLoad(last) =>
        \A o \in alloc :
            ~Balanced(o) => (last.op = "clearDescriptors" /\ last.self = o)

\* C1: CopyRegion, swap, EmptyClone, createFilteredRegions (and releasing a
\* container) keep the two lengths equal in every container when they were
\* equal before the call; Load leaves as many features as feature records read
\* and as many descriptors as descriptor records read, whatever the two counts.
C1_Amended ==
    [][/\ (/\ last'.op \in {"CopyRegion", "swap", "EmptyClone",
                            "createFilteredRegions", "Destroy"}
           /\ running'
           /\ AllBalanced) => AllBalanced'
       /\ (last'.op = "Load") =>
             \A o \in Objs : last'.self = o =>
                 /\ Len(_vec_feats'[o]) = last'.ret[2]
                 /\ Len(_vec_descs'[o]) = last'.ret[3]]_vars

C1_Witness ==
    /\ last.op = "CopyRegion" /\ running /\ last.asserts
    /\ AllBalanced
    /\ Len(_vec_feats[last.other]) = 2

\* C2: in every reachable state, the descriptor at index i of a container is
\* the descriptor of the region whose feature is at index i of that container,
\* for every i below the descriptor count.
C2_Pairing ==
    \A o \in alloc : \A k \in 1..Len(_vec_descs[o]) :
        /\ k <= Len(_vec_feats[o])
        /\ _vec_descs[o][k] = _vec_feats[o][k]

\* C3: whenever Load returns true, RegionCount() is the number of feature
\* records read and also the number of descriptor records read.
C3_LoadCounts ==
    (last.op = "Load" /\ last.ret[1]) =>
        /\ RegionCount(last.self) = last.ret[2]
        /\ RegionCount(last.self) = last.ret[3]

\* C4: for associations A whose indices are all in range of the source,
\* createFilteredRegions returns a container of Len(A) regions whose k-th
\* feature and descriptor are the source's at A[k]._featureIndex, and writes
\* the point ids of A, in A's order and with repetitions, to the first output.
C4_Filtered ==
    (last.op = "createFilteredRegions" /\ running /\ last.inBounds) =>
        LET A == last.A
            s == last.self
            r == last.other IN
          /\ RegionCount(r) = Len(A)
          /\ Len(_vec_descs[r]) = Len(A)
          /\ \A k \in 1..Len(A) :
                /\ _vec_feats[r][k] = At(_vec_feats[s], A[k]._featureIndex)
                /\ _vec_descs[r][k] = At(_vec_descs[s], A[k]._featureIndex)
          /\ last.ret[1] = [k \in 1..Len(A) |-> A[k]._point3dId]

C4_Witness ==
    /\ last.op = "createFilteredRegions" /\ running /\ last.inBounds
    /\ last.A = <<FeatureInImage(1, 100), FeatureInImage(0, 101)>>
    /\ _vec_feats[last.self] = <<1, 2>>
    /\ _vec_feats[last.other] = <<2, 1>>
    /\ last.ret[1] = <<100, 101>>

\* C5: after createFilteredRegions, whatever the outputs held before, the keys
\* of the index map are exactly the feature indices occurring in A, each key
\* maps to the last position it occurs at, and the result has one region per
\* association.
C5_IndexMap ==
    (last.op = "createFilteredRegions" /\ running) =>
        LET A == last.A
            m == last.ret[2] IN
          /\ DOMAIN m = {A[k]._featureIndex : k \in 1..Len(A)}
          /\ \A f \in DOMAIN m :
                m[f] = Max({k - 1 : k \in {j \in 1..Len(A) : A[j]._featureIndex = f}})
          /\ RegionCount(last.other) = Len(A)
          /\ Len(_vec_descs[last.other]) = Len(A)

C5_Witness ==
    /\ last.op = "createFilteredRegions" /\ running
    /\ last.A = <<FeatureInImage(0, 100), FeatureInImage(0, 101)>>
    /\ last.ret[2] = [k \in {0} |-> 1]
    /\ RegionCount(last.other) = 2

\* C6: CopyRegion(i, target) with i in range makes both arrays of the target
\* one longer, the new last feature and descriptor are the source's at i, and
\* every element the target held keeps its index and value.
C6_CopyRegion ==
    [][(last'.op = "CopyRegion" /\ running' /\ last'.asserts) =>
          \A s \in Objs, t \in Objs, i \in Indices :
             (last'.self = s /\ last'.other = t /\ last'.i = i) =>
                /\ Len(_vec_feats'[t]) = Len(_vec_feats[t]) + 1
                /\ Len(_vec_descs'[t]) = Len(_vec_descs[t]) + 1
                /\ _vec_feats'[t][Len(_vec_feats'[t])] = At(_vec_feats[s], i)
                /\ _vec_descs'[t][Len(_vec_descs'[t])] = At(_vec_descs[s], i)
                /\ \A k \in 1..Len(_vec_feats[t]) :
                      _vec_feats'[t][k] = _vec_feats[t][k]
                /\ \A k \in 1..Len(_vec_descs[t]) :
                      _vec_descs'[t][k] = _vec_descs[t][k]]_vars

C6_Witness ==
    /\ last.op = "CopyRegion" /\ running /\ last.asserts
    /\ last.self # last.other /\ last.i = 1
    /\ _vec_feats[last.other] = <<1, 2>>
    /\ _vec_descs[last.other] = <<1, 2>>

\* C7 as stated, for the first operation after clearDescriptors (a failed
\* load is not counted): the descriptor storage of the instance is still
\* empty after it.
C7_Original ==
    [][(/\ last.op = "clearDescriptors" /\ running' /\ last.self \in alloc'
        /\ ~FailedLoad(last')) =>
          \A o \in Objs : last.self = o => _vec_descs'[o] = <<>>]_vars

\* C7: clearDescriptors empties the descriptor storage, and empty descriptor
\* storage of a live instance stays empty until a Load of the instance, a
\* CopyRegion into it or a swap with it.
C7_Amended ==
    [][/\ (last'.op = "clearDescriptors" /\ running') =>
             \A o \in Objs : last'.self = o => _vec_descs'[o] = <<>>
       /\ \A o \in alloc \cap alloc' :
             (_vec_descs[o] = <<>> /\ _vec_descs'[o] # <<>>) =>
                \/ last'.op = "Load" /\ last'.self = o
                \/ last'.op = "CopyRegion" /\ last'.other = o
                \/ last'.op = "swap" /\ o \in {last'.self, last'.other}]_vars

C7_Witness ==
    /\ last.op = "clearDescriptors" /\ running
    /\ _vec_descs[last.self] = <<>>
    /\ Len(_vec_feats[last.self]) = 2
    /\ \E o \in alloc : Len(_vec_descs[o]) = 2

\* C8: clearDescriptors leaves RegionCount, every GetRegionPosition(i) and
\* GetRegionsPositions as they were, empties the descriptor array and changes
\* nothing else.
C8_ClearFrame ==
    [][(last'.op = "clearDescriptors") =>
          \A s \in Objs : last'.self = s =>
             /\ RegionCount(s)' = RegionCount(s)
             /\ \A i \in 0..(RegionCount(s) - 1) :
                   RegionPosition(s, i)' = RegionPosition(s, i)
             /\ GetRegionsPositions(s)' = GetRegionsPositions(s)
             /\ _vec_descs'[s] = <<>>
             /\ _vec_feats' = _vec_feats
             /\ alloc' = alloc
             /\ \A o \in Objs \ {s} : _vec_descs'[o] = _vec_descs[o]]_vars

C8_Witness ==
    /\ last.op = "clearDescriptors" /\ running
    /\ RegionCount(last.self) = 2
    /\ _vec_feats[last.self] = <<2, 1>>
    /\ _vec_descs[last.self] = <<>>

\* C9: createFilteredRegions and EmptyClone leave every live container as it
\* was and return an instance that is none of them; and any call changes only
\* the containers it is made on or into, so a later change of the result
\* leaves the source as it was and a later change of the source the result.
C9_Independent ==
    [][/\ (last'.op \in {"createFilteredRegions", "EmptyClone"} /\ running') =>
             \A s \in Objs, r \in Objs : (last'.self = s /\ last'.other = r) =>
                /\ r \notin alloc
                /\ r # s
                /\ alloc' = alloc \cup {r}
                /\ \A o \in alloc : /\ _vec_feats'[o] = _vec_feats[o]
                                    /\ _vec_descs'[o] = _vec_descs[o]
       /\ running' =>
             \A o \in alloc \cap alloc' :
                (_vec_feats'[o] # _vec_feats[o] \/ _vec_descs'[o] # _vec_descs[o])
                   => o \in Targets(last')]_vars

C9_Witness ==
    /\ last.op = "createFilteredRegions" /\ running /\ last.inBounds
    /\ Len(_vec_feats[last.other]) = 1
    /\ Len(_vec_feats[last.self]) = 2
    /\ Len(_vec_descs[last.self]) = 2

\* C10: whenever all the assertions of SquaredDescriptorDistance, CopyRegion,
\* createFilteredRegions or GetRegionPosition pass, every indexed read the
\* call performs is within bounds.
C10_AssertsGuardReads ==
    (last.op \in {"SquaredDescriptorDistance", "CopyRegion",
                  "createFilteredRegions", "GetRegionPosition"}) =>
        (last.asserts => last.inBounds)
====
